---- MODULE Spec2Model ----
(***************************************************************************)
(* A model of the admission-controlled wrappers of someonegg/goutility:    *)
(*   netutil.HttpService + maxConcurrentHandler (src/netutil/httpservice.go*)
(*   and the HttpService of src/unnamed/part_001, which checks quitCtx     *)
(*   itself and wraps a plain http.Handler),                               *)
(*   netutil.HttpClient, dbutil.SQLDB / SQLTx, dbutil.RedisPool / proxyConn*)
(*   (src/netutil/httpservice.go, src/dbutil/sql.go).                      *)
(*                                                                         *)
(* Every wrapper gates its callers with a chanutil.Semaphore, a buffered   *)
(* channel of capacity maxConcurrent: acquiring is a send inside a select, *)
(* releasing is a receive.  The model follows the Go channel rules: a      *)
(* select polls its legs once and takes any ready one, the goroutine then  *)
(* runs on; if none is ready the goroutine parks on all of them, and the   *)
(* first event (a token taken over by a receiver, the close of ctx.Done(), *)
(* the timer) decides its leg at the instant it happens, after which the   *)
(* goroutine has to be scheduled again.  A receive on an empty channel     *)
(* parks the receiver until a sender hands it a token.                     *)
(***************************************************************************)
EXTENDS Integers, FiniteSets, Sequences, TLC

\* ------------------------------------------------------------------ bounds
NumCallers == 3
MaxConcurrent == 2

\* ------------------------------------------------------- program constants
DefaultHesitateTime == 50
acquire_OK == 0
acquire_CtxDone == 1
acquire_Timeout == 2

Callers == 1..NumCallers
\* The hesitateTime arguments tried (milliseconds); 0 asks for the default.
HesitateArgs == {0, 20}
\* Context 0 is the service's quitCtx; the others are contexts that pool and
\* client callers pass, one for every two callers.
QuitCtx == 0
NumCtx == (NumCallers + 1) \div 2
Ctxs == 0..NumCtx

HttpFacades == {"maxConcurrentHandler", "part_001"}
PoolFacades == {"HttpClient", "SQLDB", "RedisPool"}

VARIABLES
    facade,         \* which wrapper this run is about
    maxConcurrent,  \* the constructor's maxConcurrent argument
    hesitateArg,    \* the constructor's hesitateTime argument
    hesitateTime,   \* maxConcurrentHandler.hesitateTime
    concur,         \* number of tokens buffered in the Semaphore channel
    ctxDone,        \* ctxDone[k]: context k is cancelled (Done() is closed)
    pc,             \* where each caller (goroutine) is
    sel,            \* the leg that woke a caller parked in acquireConn
    ret,            \* maxConcurrentHandler.acquireConn's result (-1: none yet)
    err,            \* the error a pool/client call returns ("nil" or a name)
    op,             \* the pool/client operation in progress
    sess,           \* the caller's SQLTx / proxyConn: "none", "open", "ended"
    calls,          \* per call: invocations of the unit of work and notifiers
    hist,           \* per call: tokens put into / taken out of the channel
    reqWG,          \* HttpService.reqWG counter
    stopD,          \* HttpService.stopD is closed
    sd,             \* the goroutine that shuts the service down
    srv             \* the goroutine started by Start (serve / ending)

\* chanutil.DoneChan, used by several goroutines
VARIABLES
    dClosed,        \* the DoneChan's channel is closed
    dFired,         \* number of close(d) that succeeded
    dpc,            \* where each goroutine is in SetDone
    dres,           \* how its SetDone ended: "ok", "recovered", "panic"
    dseen           \* what its last Done() returned ("none": not called)

\* chanutil.Event, used by several goroutines
VARIABLES
    evLen,          \* number of elements buffered in the Event's channel
    evSets,         \* Set() calls since the last successful receive
    evRecvs,        \* successful receives since the last Set() call
    evpc            \* where each goroutine is in its receive on R()

\* chanutil.Chanmap; its methods run under chanLock, one at a time
VARIABLES
    chans,          \* Chanmap.chans: id -> channel (NilChan: no entry)
    nextID,         \* Chanmap.nextID
    cmCreated,      \* every <<id, channel>> NewF has returned, in order
    cmRemoved,      \* the created ids Remove has been called on
    cmGet           \* the last Get: its argument and its result

\* idgener.memoryGener and the goroutines calling GenID
VARIABLES
    next,           \* memoryGener.next
    gpc,            \* per goroutine: "idle", "added" or "returned"
    gid,            \* per goroutine: GenID's local id
    gerr,           \* per goroutine: the error of its last GenID
    genOrder,       \* the ids in the order of the atomic increments
    genDone,        \* the ids completed calls have returned
    genCount        \* the number of completed calls

\* cmdset.CmdSet and the program using it
VARIABLES
    cmds,           \* CmdSet.cmds: name -> *Cmd (NilCmd: no entry)
    winning,        \* CmdSet.winning
    parsed,         \* CmdSet.parsed
    errorHandling,  \* CmdSet.errorHandling
    cmRun,          \* "running", or "exited" after os.Exit
    cmMade,         \* the number of Cmd structures made
    cmParses,       \* the number of Parse calls
    cmSelected,     \* whether a Parse has selected a cmd
    cmLast          \* the last Parse: its first argument and its outcome

\* chanutil.Semaphore and the goroutines calling Acquire / Release
VARIABLES
    semNew,         \* "none", "made", or "panicked" (NewSemaphore panicked)
    semArg,         \* the argument of the last NewSemaphore
    semCap,         \* cap(s)
    semLen,         \* len(s): the tokens in the channel
    spc,            \* per goroutine: "idle", "acquiring" or "releasing"
    sn,             \* per goroutine: the argument n of its call
    si,             \* per goroutine: the loop index i of its call
    slast           \* per goroutine: its last finished call and how it ended

\* logf / gologf: the package variables, the logger and the open files
VARIABLES
    logS,           \* logS: the path of the current log file, "" at first
    logF,           \* logF: the current file, 0 for nil
    logOut,         \* the file the logger writes to, 0 for its default
    logOpened,      \* the number of files os.OpenFile has opened
    logCloses,      \* per file: the number of Close calls on it
    lpc,            \* per goroutine: its position in SetOutput
    lpath,          \* per goroutine: SetOutput's path
    lfile           \* per goroutine: SetOutput's file

\* statutil.Price
VARIABLES
    count,          \* Price.count
    cycle,          \* Price.cycle, indexed from 0
    cycleTotal,     \* Price.cycleTotal
    average,        \* Price.average
    samples         \* every sample Update was called with, in order

gateVars == <<facade, maxConcurrent, hesitateArg, hesitateTime, concur, ctxDone>>
callVars == <<pc, sel, ret, err, op, sess, calls, hist>>
httpVars == <<reqWG, stopD, sd, srv>>
doneVars == <<dClosed, dFired, dpc, dres, dseen>>
eventVars == <<evLen, evSets, evRecvs, evpc>>
chanmapVars == <<chans, nextID, cmCreated, cmRemoved, cmGet>>
generVars == <<next, gpc, gid, gerr, genOrder, genDone, genCount>>
cmdsetVars == <<cmds, winning, parsed, errorHandling, cmRun, cmMade, cmParses,
               cmSelected, cmLast>>
semVars == <<semNew, semArg, semCap, semLen, spc, sn, si, slast>>
logfVars == <<logS, logF, logOut, logOpened, logCloses, lpc, lpath, lfile>>
priceVars == <<count, cycle, cycleTotal, average, samples>>
utilVars == <<doneVars, eventVars, chanmapVars, generVars, cmdsetVars, semVars,
              logfVars, priceVars>>
wrapVars == <<gateVars, callVars, httpVars>>
vars == <<wrapVars, utilVars>>

\* What the actions of one package leave alone: everything of the others.
exceptDone == <<wrapVars, eventVars, chanmapVars, generVars, cmdsetVars, semVars,
    logfVars, priceVars>>
exceptEvent == <<wrapVars, doneVars, chanmapVars, generVars, cmdsetVars, semVars,
    logfVars, priceVars>>
exceptChanmap == <<wrapVars, doneVars, eventVars, generVars, cmdsetVars, semVars,
    logfVars, priceVars>>
exceptGener == <<wrapVars, doneVars, eventVars, chanmapVars, cmdsetVars, semVars,
    logfVars, priceVars>>
exceptCmdSet == <<wrapVars, doneVars, eventVars, chanmapVars, generVars, semVars,
    logfVars, priceVars>>
exceptSem == <<wrapVars, doneVars, eventVars, chanmapVars, generVars, cmdsetVars,
    logfVars, priceVars>>
exceptLogf == <<wrapVars, doneVars, eventVars, chanmapVars, generVars, cmdsetVars,
    semVars, priceVars>>
exceptPrice == <<wrapVars, doneVars, eventVars, chanmapVars, generVars, cmdsetVars,
    semVars, logfVars>>

\* oh: the wrapped unit of work (handler, request, query, borrow);
\* onCtxDone / onLimit: the notifier's callbacks; err503: ServeHTTP's own
\* http.Error of part_001.
NoCalls == [oh |-> 0, onCtxDone |-> 0, onLimit |-> 0, err503 |-> 0]
NoHist == [acq |-> 0, rel |-> 0]

\* The wrappers' variables when a specification is about another package.
GateIdle ==
    /\ facade = "none"
    /\ maxConcurrent = 0
    /\ hesitateArg = 0
    /\ hesitateTime = 0
    /\ concur = 0
    /\ ctxDone = [k \in Ctxs |-> FALSE]
    /\ pc = [c \in Callers |-> "idle"]
    /\ sel = [c \in Callers |-> "none"]
    /\ ret = [c \in Callers |-> -1]
    /\ err = [c \in Callers |-> "nil"]
    /\ op = [c \in Callers |-> "none"]
    /\ sess = [c \in Callers |-> "none"]
    /\ calls = [c \in Callers |-> NoCalls]
    /\ hist = [c \in Callers |-> NoHist]
    /\ reqWG = 0
    /\ stopD = FALSE
    /\ sd = "running"
    /\ srv = "new"

\* ------------------------------------------------------- chanutil.DoneChan

\* NewDoneChan: make(chan struct{}), open; no goroutine has called anything.
InitDoneChan ==
    /\ dClosed = FALSE
    /\ dFired = 0
    /\ dpc = [c \in Callers |-> "idle"]
    /\ dres = [c \in Callers |-> "none"]
    /\ dseen = [c \in Callers |-> "none"]

\* DoneChan.SetDone, the select: on a closed channel the receive leg is
\* ready and SetDone returns; on an open one the default leg is taken.
SetDonePoll(c) ==
    /\ dpc[c] = "idle"
    /\ IF dClosed
       THEN /\ dpc' = [dpc EXCEPT ![c] = "returned"]
            /\ dres' = [dres EXCEPT ![c] = "ok"]
       ELSE /\ dpc' = [dpc EXCEPT ![c] = "closing"]
            /\ dres' = dres
    /\ UNCHANGED <<dClosed, dFired, dseen, exceptDone>>

\* Faulty variant of SetDoneClose: no deferred recover(), the panic of a
\* second close leaves SetDone.  C12_DoneChanOneShot rejects it.
SetDoneClose_noRecover(c) ==
    /\ dpc[c] = "closing"
    /\ dpc' = [dpc EXCEPT ![c] = "returned"]
    /\ IF dClosed
       THEN /\ dres' = [dres EXCEPT ![c] = "panic"]
            /\ UNCHANGED <<dClosed, dFired>>
       ELSE /\ dClosed' = TRUE
            /\ dFired' = dFired + 1
            /\ dres' = [dres EXCEPT ![c] = "ok"]
    /\ UNCHANGED <<dseen, exceptDone>>

\* DoneChan.SetDone, the default leg: close(d).  Closing a channel that
\* another goroutine closed since the select panics; the deferred
\* recover() stops the panic and SetDone returns normally.
SetDoneClose(c) ==
    /\ dpc[c] = "closing"
    /\ dpc' = [dpc EXCEPT ![c] = "returned"]
    /\ IF dClosed
       THEN /\ dres' = [dres EXCEPT ![c] = "recovered"]
            /\ UNCHANGED <<dClosed, dFired>>
       ELSE /\ dClosed' = TRUE
            /\ dFired' = dFired + 1
            /\ dres' = [dres EXCEPT ![c] = "ok"]
    /\ UNCHANGED <<dseen, exceptDone>>

\* The goroutine goes on after its SetDone (and may call it again).
SetDoneNext(c) ==
    /\ dpc[c] = "returned"
    /\ dpc' = [dpc EXCEPT ![c] = "idle"]
    /\ dres' = [dres EXCEPT ![c] = "none"]
    /\ UNCHANGED <<dClosed, dFired, dseen, exceptDone>>

\* DoneChanR.Done: true when the receive leg is ready, i.e. d is closed.
Done(c) ==
    /\ dpc[c] \in {"idle", "returned"}
    /\ dseen' = [dseen EXCEPT ![c] = IF dClosed THEN "true" ELSE "false"]
    /\ UNCHANGED <<dClosed, dFired, dpc, dres, exceptDone>>

NextDoneChan ==
    \E c \in Callers :
        \/ SetDonePoll(c)
        \/ SetDoneClose(c)
        \/ SetDoneNext(c)
        \/ Done(c)

\* ---------------------------------------------------------- chanutil.Event

\* The most Set() calls counted between two receives.
MaxSets == 3

\* NewEvent: make(chan struct{}, 1), empty.
InitEvent ==
    /\ evLen = 0
    /\ evSets = 0
    /\ evRecvs = 0
    /\ evpc = [c \in Callers |-> "idle"]

\* The goroutines blocked in a receive on R().
evWaiters == {c \in Callers : evpc[c] = "waiting"}

\* Faulty variant of Set: the element is queued even when one is pending
\* (a channel of larger capacity).  C13_EventCoalesces rejects it.
Set_queueing(c) ==
    /\ evpc[c] = "idle"
    /\ evSets < MaxSets
    /\ evSets' = evSets + 1
    /\ evRecvs' = 0
    /\ evLen' = evLen + 1
    /\ evpc' = [evpc EXCEPT ![c] = "sent"]
    /\ UNCHANGED exceptEvent

\* Event.Set: select { case e <- struct{}{}: default: }.  The send goes to
\* a blocked receiver if there is one, else into the buffer if it is empty;
\* else the default leg is taken.  One step, it never blocks; the goroutine
\* is then at the leg it took ("sent" or "dropped").
Set(c) ==
    /\ evpc[c] = "idle"
    /\ evSets < MaxSets
    /\ IF evWaiters # {}
       THEN \E r \in evWaiters :
            /\ evpc' = [evpc EXCEPT ![r] = "got", ![c] = "sent"]
            /\ evSets' = 0
            /\ evRecvs' = 1
            /\ evLen' = evLen
       ELSE /\ evSets' = evSets + 1
            /\ evRecvs' = 0
            /\ evLen' = (IF evLen < 1 THEN evLen + 1 ELSE evLen)
            /\ evpc' = [evpc EXCEPT ![c] =
                            IF evLen < 1 THEN "sent" ELSE "dropped"]
    /\ UNCHANGED exceptEvent

\* <-e.R(): takes the pending element, or blocks on an empty channel.
Recv(c) ==
    /\ evpc[c] = "idle"
    /\ IF evLen > 0
       THEN /\ evLen' = evLen - 1
            /\ evSets' = 0
            /\ evRecvs' = evRecvs + 1
            /\ evpc' = [evpc EXCEPT ![c] = "got"]
       ELSE /\ evpc' = [evpc EXCEPT ![c] = "waiting"]
            /\ UNCHANGED <<evLen, evSets, evRecvs>>
    /\ UNCHANGED exceptEvent

\* The goroutine goes on after its Set or its receive.
EventNext(c) ==
    /\ evpc[c] \in {"got", "sent", "dropped"}
    /\ evpc' = [evpc EXCEPT ![c] = "idle"]
    /\ UNCHANGED <<evLen, evSets, evRecvs, exceptEvent>>

NextEvent ==
    \E c \in Callers :
        \/ Set(c)
        \/ Recv(c)
        \/ EventNext(c)

\* -------------------------------------------------------- chanutil.Chanmap

\* The most channels created.
MaxIDs == 3

\* defChanmap = NewChanmap(1): the size New passes to NewF.
defChanSize == 1

\* The ids Get and Remove are called with: created ones, 0 and one beyond.
IdArgs == 0..(MaxIDs + 1)

\* The buffer sizes NewF is called with.
ChanSizes == {0, defChanSize}

\* The nil channel, and the n-th channel made, of the given size.
NilChan == [size |-> -1, n |-> 0]
MakeChan(size, n) == [size |-> size, n |-> n]

\* NewChanmap: an empty map, nextID 1.
InitChanmap ==
    /\ chans = [i \in IdArgs |-> NilChan]
    /\ nextID = 1
    /\ cmCreated = <<>>
    /\ cmRemoved = {}
    /\ cmGet = [id |-> 0, c |-> NilChan]

\* Faulty variant of NewF: the id of a removed channel is used again.
\* C14_ChanmapIds rejects it.
NewF_reuse(size) ==
    /\ nextID <= MaxIDs
    /\ LET id == IF cmRemoved # {} THEN CHOOSE i \in cmRemoved : TRUE
                 ELSE nextID
           c == MakeChan(size, Len(cmCreated) + 1)
       IN  /\ chans' = [chans EXCEPT ![id] = c]
           /\ nextID' = nextID + 1
           /\ cmCreated' = Append(cmCreated, [id |-> id, c |-> c])
    /\ UNCHANGED <<cmRemoved, cmGet, exceptChanmap>>

\* Chanmap.NewF: id = nextID, a new channel is stored under it, nextID += 1.
NewF(size) ==
    /\ nextID <= MaxIDs
    /\ LET id == nextID
           c == MakeChan(size, Len(cmCreated) + 1)
       IN  /\ chans' = [chans EXCEPT ![id] = c]
           /\ nextID' = nextID + 1
           /\ cmCreated' = Append(cmCreated, [id |-> id, c |-> c])
    /\ UNCHANGED <<cmRemoved, cmGet, exceptChanmap>>

\* Chanmap.New (and the package's New, NewF on the default Chanmap).
New == NewF(defChanSize)

\* Chanmap.Get: m.chans[id], nil without an entry.
Get(id) ==
    /\ cmGet' = [id |-> id, c |-> chans[id]]
    /\ UNCHANGED <<chans, nextID, cmCreated, cmRemoved, exceptChanmap>>

\* Chanmap.Remove: delete(m.chans, id).
Remove(id) ==
    /\ chans' = [chans EXCEPT ![id] = NilChan]
    /\ cmRemoved' = cmRemoved \cup
                    {i \in {id} : \E k \in 1..Len(cmCreated) : cmCreated[k].id = i}
    /\ UNCHANGED <<nextID, cmCreated, cmGet, exceptChanmap>>

NextChanmap ==
    \/ New
    \/ \E size \in ChanSizes : NewF(size)
    \/ \E id \in IdArgs : Get(id)
    \/ \E id \in IdArgs : Remove(id)

\* ------------------------------------------------------ idgener.memoryGener

\* The most ids generated.
MaxGen == 4

\* NewMemoryGener: &memoryGener{}, next is 0.
InitGener ==
    /\ next = 0
    /\ gpc = [c \in Callers |-> "idle"]
    /\ gid = [c \in Callers |-> 0]
    /\ gerr = [c \in Callers |-> "none"]
    /\ genOrder = <<>>
    /\ genDone = {}
    /\ genCount = 0

\* Faulty variant of GenIDAdd: the value before the increment is the id.
\* C15_MemoryGenerIds rejects it.
GenIDAdd_old(c) ==
    /\ gpc[c] = "idle"
    /\ next < MaxGen
    /\ next' = next + 1
    /\ gid' = [gid EXCEPT ![c] = next]
    /\ gpc' = [gpc EXCEPT ![c] = "added"]
    /\ gerr' = [gerr EXCEPT ![c] = "none"]
    /\ genOrder' = Append(genOrder, next)
    /\ UNCHANGED <<genDone, genCount, exceptGener>>

\* GenID, id := atomic.AddInt64(&g.next, 1): the incremented value.
GenIDAdd(c) ==
    /\ gpc[c] = "idle"
    /\ next < MaxGen
    /\ next' = next + 1
    /\ gid' = [gid EXCEPT ![c] = next + 1]
    /\ gpc' = [gpc EXCEPT ![c] = "added"]
    /\ gerr' = [gerr EXCEPT ![c] = "none"]
    /\ genOrder' = Append(genOrder, next + 1)
    /\ UNCHANGED <<genDone, genCount, exceptGener>>

\* GenID, return id, nil.
GenIDReturn(c) ==
    /\ gpc[c] = "added"
    /\ gpc' = [gpc EXCEPT ![c] = "returned"]
    /\ gerr' = [gerr EXCEPT ![c] = "nil"]
    /\ genDone' = genDone \cup {gid[c]}
    /\ genCount' = genCount + 1
    /\ UNCHANGED <<next, gid, genOrder, exceptGener>>

\* The goroutine calls GenID again.
GenIDAgain(c) ==
    /\ gpc[c] = "returned"
    /\ gpc' = [gpc EXCEPT ![c] = "idle"]
    /\ UNCHANGED <<next, gid, gerr, genOrder, genDone, genCount, exceptGener>>

NextGener ==
    \E c \in Callers :
        \/ GenIDAdd(c)
        \/ GenIDReturn(c)
        \/ GenIDAgain(c)

\* ------------------------------------------------------------ cmdset.CmdSet

\* The most Cmd structures made, Parse calls, and arguments of a Parse.
MaxCmds == 2
MaxParses == 2
MaxArgs == 2

\* The strings used as cmd names and as arguments.
Tokens == {"", "build", "help", "-h"}

\* The argument lists of Parse.
ArgLists == UNION {[1..n -> Tokens] : n \in 0..MaxArgs}

ErrorHandlings == {"ContinueOnError", "ExitOnError", "PanicOnError"}

\* The nil *Cmd, and the n-th Cmd structure made, defined under name.
NilCmd == [Name |-> "", n |-> 0]
MakeCmd(name, n) == [Name |-> name, n |-> n]

\* NewCmdSet(name, errorHandling): an empty set, nothing parsed or selected.
InitCmdSet ==
    /\ cmds = [t \in Tokens |-> NilCmd]
    /\ winning = ""
    /\ parsed = FALSE
    /\ errorHandling \in ErrorHandlings
    /\ cmRun = "running"
    /\ cmMade = 0
    /\ cmParses = 0
    /\ cmSelected = FALSE
    /\ cmLast = [arg |-> "none", defined |-> FALSE, res |-> "none"]

\* CmdSet.Lookup: c.cmds[name], nil without an entry.
Lookup(name) == cmds[name]

\* CmdSet.Winning: c.Lookup(c.winning).
Winning == Lookup(winning)

\* CmdSet.NewCmd / NewCmdVar: a Cmd is stored under its name, replacing any
\* earlier one of that name.
NewCmd(name) ==
    /\ cmRun = "running"
    /\ cmMade < MaxCmds
    /\ cmMade' = cmMade + 1
    /\ cmds' = [cmds EXCEPT ![name] = MakeCmd(name, cmMade + 1)]
    /\ UNCHANGED <<winning, parsed, errorHandling, cmRun, cmParses, cmSelected,
                   cmLast, exceptCmdSet>>

\* Cmd.Parse, flag.FlagSet.Parse of a cmd without flags of its own: an
\* argument that starts with "-" is an undefined flag or the help request.
flagParse(rest) ==
    IF rest # <<>> /\ rest[1] = "-h" THEN "ErrHelp" ELSE "nil"

\* CmdSet.parseCmd: the value of c.winning after it and the error it returns.
parseCmd(arguments) ==
    IF Len(arguments) = 0
    THEN [winning |-> winning, err |-> "ErrHelp"]
    ELSE IF cmds[arguments[1]] = NilCmd
    THEN IF arguments[1] \in {"-h", "help"}
         THEN [winning |-> winning, err |-> "ErrHelp"]
         ELSE [winning |-> winning, err |-> "unknown cmd"]
    ELSE [winning |-> arguments[1], err |-> flagParse(Tail(arguments))]

\* What Parse does with parseCmd's error under each ErrorHandling.
ParseOutcome(e) ==
    IF e = "nil" THEN "nil"
    ELSE CASE errorHandling = "ContinueOnError" -> "err"
           [] errorHandling = "ExitOnError" -> "exit"
           [] errorHandling = "PanicOnError" -> "panic"

\* CmdSet.Parse: c.parsed = true, then parseCmd; the error is returned, the
\* process exits or the call panics (which the caller may recover).
Parse(arguments) ==
    /\ cmRun = "running"
    /\ cmParses < MaxParses
    /\ cmParses' = cmParses + 1
    /\ parsed' = TRUE
    /\ winning' = parseCmd(arguments).winning
    /\ cmSelected' = (cmSelected \/ (arguments # <<>> /\ cmds[arguments[1]] # NilCmd))
    /\ cmRun' = IF ParseOutcome(parseCmd(arguments).err) = "exit"
                THEN "exited" ELSE "running"
    /\ cmLast' = [arg |-> IF arguments = <<>> THEN "none" ELSE arguments[1],
                  defined |-> arguments # <<>> /\ cmds[arguments[1]] # NilCmd,
                  res |-> ParseOutcome(parseCmd(arguments).err)]
    /\ UNCHANGED <<cmds, errorHandling, cmMade, exceptCmdSet>>

NextCmdSet ==
    \/ \E name \in Tokens : NewCmd(name)
    \/ \E arguments \in ArgLists : Parse(arguments)

\* --------------------------------------------------------- chanutil.Semaphore

\* The goroutines using the Semaphore, and the largest capacity.
NumSem == 2
MaxCap == 2

SemCallers == 1..NumSem

\* The arguments of NewSemaphore, and of Acquire / Release: from a negative
\* one to one beyond the capacity.
NewArgs == -1..MaxCap
SemArgs == -1..(semCap + 1)

NoSemCall == [op |-> "none", n |-> 0, res |-> "none"]

\* No Semaphore has been made.
InitSem ==
    /\ semNew = "none"
    /\ semArg = 0
    /\ semCap = 0
    /\ semLen = 0
    /\ spc = [c \in SemCallers |-> "idle"]
    /\ sn = [c \in SemCallers |-> 0]
    /\ si = [c \in SemCallers |-> 0]
    /\ slast = [c \in SemCallers |-> NoSemCall]

\* NewSemaphore(n): panic(ErrInvalidArgs) for n <= 0, else make(chan, n).
NewSemaphore(n) ==
    /\ semNew # "made"
    /\ semArg' = n
    /\ IF n <= 0
       THEN /\ semNew' = "panicked"
            /\ semCap' = semCap
       ELSE /\ semNew' = "made"
            /\ semCap' = n
    /\ UNCHANGED <<semLen, spc, sn, si, slast, exceptSem>>

\* Faulty variant of InvalidArgs: n = cap(s) is rejected as well.
\* C23_SemaphoreArgs rejects it.
InvalidArgs_geq(n) == n >= semCap

\* The check of Acquire and Release: n > cap(s).
InvalidArgs(n) == n > semCap

\* A call of Acquire or Release starts: panic(ErrInvalidArgs), or i := 0.
SemCall(c, o, n) ==
    /\ semNew = "made"
    /\ spc[c] = "idle"
    /\ IF InvalidArgs(n)
       THEN /\ slast' = [slast EXCEPT ![c] =
                            [op |-> o, n |-> n, res |-> "ErrInvalidArgs"]]
            /\ UNCHANGED <<spc, sn, si>>
       ELSE /\ spc' = [spc EXCEPT ![c] =
                          IF o = "Acquire" THEN "acquiring" ELSE "releasing"]
            /\ sn' = [sn EXCEPT ![c] = n]
            /\ si' = [si EXCEPT ![c] = 0]
            /\ slast' = [slast EXCEPT ![c] = NoSemCall]
    /\ UNCHANGED <<semNew, semArg, semCap, semLen, exceptSem>>

\* Semaphore.Acquire(n) is called.
Acquire(c, n) == SemCall(c, "Acquire", n)

\* Semaphore.Release(n) is called.
Release(c, n) == SemCall(c, "Release", n)

\* Acquire's loop body, s <- e: blocks while the channel is full.
AcquireSend(c) ==
    /\ spc[c] = "acquiring"
    /\ si[c] < sn[c]
    /\ semLen < semCap
    /\ semLen' = semLen + 1
    /\ si' = [si EXCEPT ![c] = @ + 1]
    /\ UNCHANGED <<semNew, semArg, semCap, spc, sn, slast, exceptSem>>

\* Release's loop body, <-s: blocks while the channel is empty.
ReleaseRecv(c) ==
    /\ spc[c] = "releasing"
    /\ si[c] < sn[c]
    /\ semLen > 0
    /\ semLen' = semLen - 1
    /\ si' = [si EXCEPT ![c] = @ + 1]
    /\ UNCHANGED <<semNew, semArg, semCap, spc, sn, slast, exceptSem>>

\* The loop of Acquire / Release ends (i < n is false): the call returns.
SemReturn(c) ==
    /\ spc[c] \in {"acquiring", "releasing"}
    /\ ~(si[c] < sn[c])
    /\ spc' = [spc EXCEPT ![c] = "idle"]
    /\ slast' = [slast EXCEPT ![c] =
                    [op |-> IF spc[c] = "acquiring" THEN "Acquire" ELSE "Release",
                     n |-> sn[c], res |-> "returned"]]
    /\ UNCHANGED <<semNew, semArg, semCap, semLen, sn, si, exceptSem>>

NextSem ==
    \/ \E n \in NewArgs : NewSemaphore(n)
    \/ \E c \in SemCallers :
        \/ \E n \in SemArgs : Acquire(c, n)
        \/ \E n \in SemArgs : Release(c, n)
        \/ AcquireSend(c)
        \/ ReleaseRecv(c)
        \/ SemReturn(c)

\* ------------------------------------------------------------ logf / gologf

\* The most files opened.
MaxFiles == 3

\* The goroutines that call SetOutput: the application and logSig.
LogCallers == {"app", "sig"}

\* The paths the application passes.
LogPaths == {"a.log", "b.log"}

\* The package variables at start: no path, no file, the logger's default.
InitLogf ==
    /\ logS = ""
    /\ logF = 0
    /\ logOut = 0
    /\ logOpened = 0
    /\ logCloses = [f \in 1..MaxFiles |-> 0]
    /\ lpc = [g \in LogCallers |-> "idle"]
    /\ lpath = [g \in LogCallers |-> ""]
    /\ lfile = [g \in LogCallers |-> 0]

\* The application calls SetOutput(path).
AppSetOutput(path) ==
    /\ lpc["app"] = "idle"
    /\ lpc' = [lpc EXCEPT !["app"] = "open"]
    /\ lpath' = [lpath EXCEPT !["app"] = path]
    /\ UNCHANGED <<logS, logF, logOut, logOpened, logCloses, lfile, exceptLogf>>

\* logSig receives SIGUSR1: it reads logS under the lock and calls
\* SetOutput(path) unless the path is empty.
LogSig ==
    /\ lpc["sig"] = "idle"
    /\ logS # ""
    /\ lpc' = [lpc EXCEPT !["sig"] = "open"]
    /\ lpath' = [lpath EXCEPT !["sig"] = logS]
    /\ UNCHANGED <<logS, logF, logOut, logOpened, logCloses, lfile, exceptLogf>>

\* SetOutput, os.OpenFile succeeds: a new open file.
OpenFile(g) ==
    /\ lpc[g] = "open"
    /\ logOpened < MaxFiles
    /\ logOpened' = logOpened + 1
    /\ lfile' = [lfile EXCEPT ![g] = logOpened + 1]
    /\ lpc' = [lpc EXCEPT ![g] = "opened"]
    /\ UNCHANGED <<logS, logF, logOut, logCloses, lpath, exceptLogf>>

\* SetOutput, os.OpenFile fails: return err, nothing has changed.
OpenFileErr(g) ==
    /\ lpc[g] = "open"
    /\ lpc' = [lpc EXCEPT ![g] = "idle"]
    /\ UNCHANGED <<logS, logF, logOut, logOpened, logCloses, lpath, lfile,
                   exceptLogf>>

\* SetOutput, log.SetOutput(file) / golog.RootLogger.SetHandler(...): the
\* logger writes to the new file; the lock is not held.
SetLoggerOutput(g) ==
    /\ lpc[g] = "opened"
    /\ logOut' = lfile[g]
    /\ lpc' = [lpc EXCEPT ![g] = "set"]
    /\ UNCHANGED <<logS, logF, logOpened, logCloses, lpath, lfile, exceptLogf>>

\* SetOutput, under the lock: logF.Close() if logF != nil, logS = path,
\* logF = file; return nil.
SwapFile(g) ==
    /\ lpc[g] = "set"
    /\ logCloses' = IF logF # 0 THEN [logCloses EXCEPT ![logF] = @ + 1]
                    ELSE logCloses
    /\ logS' = lpath[g]
    /\ logF' = lfile[g]
    /\ lpc' = [lpc EXCEPT ![g] = "idle"]
    /\ UNCHANGED <<logOut, logOpened, lpath, lfile, exceptLogf>>

NextLogf ==
    \/ \E path \in LogPaths : AppSetOutput(path)
    \/ LogSig
    \/ \E g \in LogCallers :
        \/ OpenFile(g)
        \/ OpenFileErr(g)
        \/ SetLoggerOutput(g)
        \/ SwapFile(g)

\* ------------------------------------------------------------ statutil.Price

\* The width of the integers (int64 and uint64, scaled down), the largest
\* cycleSize and the most Update calls.
IntBits == 6
MaxCycle == 2
MaxUpdates == 3

MinInt == -(2 ^ (IntBits - 1))
MaxInt == 2 ^ (IntBits - 1) - 1

\* Signed arithmetic of IntBits bits wraps around.
Wrap(x) == ((x - MinInt) % (2 ^ IntBits)) + MinInt

\* Go's integer division, which truncates toward zero (b > 0).
TruncDiv(a, b) == IF a >= 0 THEN a \div b ELSE -((-a) \div b)

\* The samples Update is called with.
Samples == {MinInt, -3, 0, 2, MaxInt}

\* NewPrice(cycleSize), cycleSize >= 1: a cycle of zeroes, nothing counted.
InitPrice ==
    /\ \E N \in 1..MaxCycle : cycle = [i \in 0..(N - 1) |-> 0]
    /\ count = 0
    /\ cycleTotal = 0
    /\ average = 0
    /\ samples = <<>>

\* len(p.cycle)
CycleLen == Cardinality(DOMAIN cycle)

\* Price.Update(sample).
Update(sample) ==
    /\ count < MaxUpdates
    /\ LET N == CycleLen
           i == count % N
           total == Wrap(Wrap(cycleTotal - cycle[i]) + sample)
           n == IF (count + 1) % (2 ^ IntBits) > N THEN N
                ELSE (count + 1) % (2 ^ IntBits)
       IN  /\ count' = (count + 1) % (2 ^ IntBits)
           /\ cycleTotal' = total
           /\ cycle' = [cycle EXCEPT ![i] = sample]
           /\ average' = TruncDiv(total, n)
    /\ samples' = Append(samples, sample)
    /\ UNCHANGED exceptPrice

\* Price.Average().
Average == average

NextPrice == \E sample \in Samples : Update(sample)

\* The state of the utilities when a specification is about the wrappers.
InitUtil ==
    /\ InitDoneChan
    /\ InitEvent
    /\ InitChanmap
    /\ InitGener
    /\ InitCmdSet
    /\ errorHandling = "ContinueOnError"
    /\ InitSem
    /\ InitLogf
    /\ InitPrice
    /\ CycleLen = 1

\* A Price on its own, of any cycleSize.
InitOnlyPrice ==
    /\ GateIdle
    /\ InitDoneChan
    /\ InitEvent
    /\ InitChanmap
    /\ InitGener
    /\ InitCmdSet
    /\ errorHandling = "ContinueOnError"
    /\ InitSem
    /\ InitLogf
    /\ InitPrice

SpecPrice == InitOnlyPrice /\ [][NextPrice]_vars

\* The log files on their own.
InitOnlyLogf ==
    /\ GateIdle
    /\ InitUtil

SpecLogf == InitOnlyLogf /\ [][NextLogf]_vars

\* A Semaphore on its own.
InitOnlySem ==
    /\ GateIdle
    /\ InitUtil

SpecSem == InitOnlySem /\ [][NextSem]_vars

\* A Semaphore of some capacity with no holders, used by goroutines that
\* each call Acquire(n) once with some 0 <= n <= cap and then Release(n).
InitPairs ==
    /\ GateIdle
    /\ InitDoneChan
    /\ InitEvent
    /\ InitChanmap
    /\ InitGener
    /\ InitCmdSet
    /\ errorHandling = "ContinueOnError"
    /\ InitLogf
    /\ InitPrice
    /\ CycleLen = 1
    /\ semNew = "made"
    /\ semCap \in 1..MaxCap
    /\ semArg = semCap
    /\ semLen = 0
    /\ spc = [c \in SemCallers |-> "idle"]
    /\ sn = [c \in SemCallers |-> 0]
    /\ si = [c \in SemCallers |-> 0]
    /\ slast = [c \in SemCallers |-> NoSemCall]

\* The goroutine's Acquire(n).
PairAcquire(c) ==
    /\ spc[c] = "idle"
    /\ slast[c].op = "none"
    /\ \E n \in 0..semCap : Acquire(c, n)

\* The goroutine's Release(n), with the n of its Acquire.
PairRelease(c) ==
    /\ spc[c] = "idle"
    /\ slast[c].op = "Acquire"
    /\ Release(c, slast[c].n)

\* The goroutine has returned from its Release.
PairDone(c) == spc[c] = "idle" /\ slast[c].op = "Release"

PairStep(c) ==
    \/ PairAcquire(c)
    \/ PairRelease(c)
    \/ AcquireSend(c)
    \/ ReleaseRecv(c)
    \/ SemReturn(c)

NextPairs == \E c \in SemCallers : PairStep(c)

\* The scheduler runs every goroutine that is not blocked.
FairSpecPairs ==
    /\ InitPairs
    /\ [][NextPairs]_vars
    /\ \A c \in SemCallers : WF_vars(PairStep(c))

\* A CmdSet on its own, with any ErrorHandling.
InitOnlyCmdSet ==
    /\ GateIdle
    /\ InitDoneChan
    /\ InitEvent
    /\ InitChanmap
    /\ InitGener
    /\ InitCmdSet
    /\ InitSem
    /\ InitLogf
    /\ InitPrice
    /\ CycleLen = 1

SpecCmdSet == InitOnlyCmdSet /\ [][NextCmdSet]_vars

\* A memoryGener on its own.
InitOnlyGener ==
    /\ GateIdle
    /\ InitUtil

SpecGener == InitOnlyGener /\ [][NextGener]_vars

\* A Chanmap on its own.
InitOnlyChanmap ==
    /\ GateIdle
    /\ InitUtil

SpecChanmap == InitOnlyChanmap /\ [][NextChanmap]_vars

\* An Event on its own.
InitOnlyEvent ==
    /\ GateIdle
    /\ InitUtil

SpecEvent == InitOnlyEvent /\ [][NextEvent]_vars

\* A DoneChan on its own: the wrappers are not called.
InitOnlyDoneChan ==
    /\ GateIdle
    /\ InitUtil

SpecDoneChan == InitOnlyDoneChan /\ [][NextDoneChan]_vars

\* ------------------------------------------------------------ constructors

\* Faulty variant of Gated: a Semaphore of capacity 0 is built for
\* maxConcurrent = 0.  C6_UnboundedNeverBlocks rejects it.
Gated_zeroCapacity == maxConcurrent >= 0

\* chanutil.NewSemaphore(n) is reached only with n > 0; a nil Semaphore (or,
\* for the handler, no wrapper at all) stands for "no limit".
Gated == maxConcurrent > 0

\* Faulty variant of NewHesitateTime: the argument is kept as it is.
\* C10_HesitateDefault rejects it.
NewHesitateTime_asGiven(arg) == arg

\* NewMaxConcurrentHandler: hesitateTime <= 0 is replaced by the default.
NewHesitateTime(arg) == IF arg <= 0 THEN DefaultHesitateTime ELSE arg

\* The context a caller passes: the service passes its quitCtx to every
\* request; pool and client callers bring their own (callers 1 and 2 share
\* one, callers 3 and 4 the next).
CtxOf(c) == IF facade \in HttpFacades THEN QuitCtx ELSE (c + 1) \div 2

\* ------------------------------------------------------- channel semantics

\* Goroutines parked in the select of acquireConn (senders), and goroutines
\* parked in releaseConn's receive on an empty channel (receivers).
sendq == {c \in Callers : pc[c] = "parked"}
recvq == {c \in Callers : pc[c] = "relBlocked"}

\* Where a caller continues once its releaseConn has returned.
AfterRelease == IF facade \in HttpFacades THEN "unwound" ELSE "done"

\* The legs of the select in acquireConn.
Legs == IF facade = "maxConcurrentHandler" THEN {"ctx", "send", "timer"}
        ELSE {"ctx", "send"}

\* The legs that are ready when the select polls.
ReadyLegs(c) ==
    {l \in Legs :
        \/ l = "ctx" /\ ctxDone[CtxOf(c)]
        \/ l = "send" /\ (recvq # {} \/ concur < maxConcurrent)
        \/ l = "timer" /\ hesitateTime <= 0}

\* concur <- struct{}{} : hand the token to a parked receiver if there is
\* one, else buffer it.
SendToken(c, nxt) ==
    IF recvq # {}
    THEN \E r \in recvq :
            /\ pc' = [pc EXCEPT ![c] = nxt, ![r] = AfterRelease]
            /\ hist' = [hist EXCEPT ![c].acq = @ + 1, ![r].rel = @ + 1]
            /\ concur' = concur
    ELSE /\ concur < maxConcurrent
         /\ concur' = concur + 1
         /\ pc' = [pc EXCEPT ![c] = nxt]
         /\ hist' = [hist EXCEPT ![c].acq = @ + 1]

\* <-concur : take a token; a parked sender refills the buffer at once and
\* is thereby admitted; on an empty channel the receiver parks.
RecvToken(c, nxt) ==
    IF concur > 0
    THEN IF sendq # {}
         THEN \E s \in sendq :
                 /\ pc' = [pc EXCEPT ![c] = nxt, ![s] = "selected"]
                 /\ sel' = [sel EXCEPT ![s] = "send"]
                 /\ hist' = [hist EXCEPT ![c].rel = @ + 1, ![s].acq = @ + 1]
                 /\ concur' = concur
         ELSE /\ pc' = [pc EXCEPT ![c] = nxt]
              /\ hist' = [hist EXCEPT ![c].rel = @ + 1]
              /\ concur' = concur - 1
              /\ sel' = sel
    ELSE /\ pc' = [pc EXCEPT ![c] = "relBlocked"]
         /\ UNCHANGED <<concur, sel, hist>>

\* Faulty variant of Cancel: the cancellation also aborts the units of work
\* running under the context.  C17_CancelLeavesAdmitted rejects it.
Cancel_abort(k) ==
    /\ ctxDone' = [ctxDone EXCEPT ![k] = TRUE]
    /\ pc' = [c \in Callers |->
                IF CtxOf(c) = k /\ pc[c] = "parked" /\ "ctx" \in Legs
                THEN "selected"
                ELSE IF CtxOf(c) = k /\ pc[c] \in {"serving", "using"}
                THEN "selected"
                ELSE pc[c]]
    /\ sel' = [c \in Callers |->
                IF CtxOf(c) = k /\ pc[c] \in {"parked", "serving", "using"}
                   /\ "ctx" \in Legs
                THEN "ctx" ELSE sel[c]]

\* Faulty variant of Cancel: the context is marked done but the goroutines
\* parked on it are not woken.  C5_CancelledAcquireReturns rejects it.
Cancel_noWake(k) ==
    /\ ctxDone' = [ctxDone EXCEPT ![k] = TRUE]
    /\ UNCHANGED <<pc, sel>>

\* cancel() of context k closes its Done channel: every goroutine parked on
\* it is woken with the ctx leg.
Cancel(k) ==
    /\ ctxDone' = [ctxDone EXCEPT ![k] = TRUE]
    /\ pc' = [c \in Callers |->
                IF pc[c] = "parked" /\ CtxOf(c) = k /\ "ctx" \in Legs
                THEN "selected" ELSE pc[c]]
    /\ sel' = [c \in Callers |->
                IF pc[c] = "parked" /\ CtxOf(c) = k /\ "ctx" \in Legs
                THEN "ctx" ELSE sel[c]]

\* ------------------------------------------------- maxConcurrentHandler

\* maxConcurrentHandler.acquireConn's result for the leg that fired.
acquireConn(l) ==
    CASE l = "ctx" -> acquire_CtxDone
      [] l = "send" -> acquire_OK
      [] l = "timer" -> acquire_Timeout

\* Faulty variant of Switch: the refusal cases do not return, so the wrapped
\* handler runs after the notifier.  C9_ExactlyOneOutcome rejects it.
Switch_noReturn(c, r) ==
    /\ ret' = [ret EXCEPT ![c] = r]
    /\ calls' = [calls EXCEPT ![c] =
                    CASE r = acquire_CtxDone ->
                            [@ EXCEPT !.onCtxDone = @ + 1, !.oh = @ + 1]
                      [] r = acquire_Timeout ->
                            [@ EXCEPT !.onLimit = @ + 1, !.oh = @ + 1]
                      [] OTHER -> [@ EXCEPT !.oh = @ + 1]]

\* ContextServeHTTP's switch on ret: the notifier's callback and return, or
\* the wrapped handler.
Switch(c, r) ==
    /\ ret' = [ret EXCEPT ![c] = r]
    /\ calls' = [calls EXCEPT ![c] =
                    CASE r = acquire_CtxDone -> [@ EXCEPT !.onCtxDone = @ + 1]
                      [] r = acquire_Timeout -> [@ EXCEPT !.onLimit = @ + 1]
                      [] OTHER -> [@ EXCEPT !.oh = @ + 1]]

\* Faulty variant of AfterSwitch: the refusal cases do not leave before the
\* deferred releaseConn is set up.  C19_RefusedLeavesGate rejects it.
AfterSwitch_release(r) == "serving"

\* Where the request is after the switch.
AfterSwitch(r) ==
    IF r \in {acquire_CtxDone, acquire_Timeout} THEN "unwound" ELSE "serving"

\* maxConcurrentHandler.ContextServeHTTP up to the wrapped handler: the
\* select of acquireConn takes a ready leg and the switch follows at once,
\* or the request parks.
ContextServeHTTP(c) ==
    IF ReadyLegs(c) = {}
    THEN /\ pc' = [pc EXCEPT ![c] = "parked"]
         /\ UNCHANGED <<concur, sel, ret, calls, hist>>
    ELSE \E l \in ReadyLegs(c) :
            /\ Switch(c, acquireConn(l))
            /\ sel' = sel
            /\ IF l = "send"
               THEN SendToken(c, AfterSwitch(acquireConn(l)))
               ELSE /\ pc' = [pc EXCEPT ![c] = AfterSwitch(acquireConn(l))]
                    /\ UNCHANGED <<concur, hist>>

\* HttpService.ServeHTTP (httpservice.go): reqWG.Add(1), then the handler:
\* maxConcurrentHandler, or for maxConcurrent <= 0 the wrapped handler itself.
ServeHTTP(c) ==
    /\ facade = "maxConcurrentHandler"
    /\ srv # "new"
    /\ pc[c] = "idle"
    /\ reqWG' = reqWG + 1
    /\ IF Gated
       THEN ContextServeHTTP(c)
       ELSE /\ pc' = [pc EXCEPT ![c] = "serving"]
            /\ calls' = [calls EXCEPT ![c].oh = @ + 1]
            /\ UNCHANGED <<concur, sel, ret, hist>>
    /\ UNCHANGED <<utilVars, facade, maxConcurrent, hesitateArg, hesitateTime, ctxDone,
                   err, op, sess, stopD, sd, srv>>

\* HttpService.ServeHTTP (part_001): the non-blocking check of quitCtx.
ServeHTTPCheck(c) ==
    /\ facade = "part_001"
    /\ srv # "new"
    /\ pc[c] = "idle"
    /\ IF ctxDone[QuitCtx]
       THEN /\ pc' = [pc EXCEPT ![c] = "refused"]
            /\ calls' = [calls EXCEPT ![c].err503 = @ + 1]
       ELSE /\ pc' = [pc EXCEPT ![c] = "checked"]
            /\ calls' = calls
    /\ UNCHANGED <<utilVars, gateVars, sel, ret, err, op, sess, hist, httpVars>>

\* HttpService.ServeHTTP (part_001): reqWG.Add(1) and s.h.ServeHTTP(w, r).
ServeHTTPAdd(c) ==
    /\ facade = "part_001"
    /\ pc[c] = "checked"
    /\ reqWG' = reqWG + 1
    /\ pc' = [pc EXCEPT ![c] = "serving"]
    /\ calls' = [calls EXCEPT ![c].oh = @ + 1]
    /\ UNCHANGED <<utilVars, gateVars, sel, ret, err, op, sess, hist, stopD, sd, srv>>

\* Faulty variant of Timeout: the timer leg can still fire for a request whose
\* send has already been taken.  C22_GateBoundsCountOnly rejects it.
Timeout_afterSend(c) ==
    /\ facade = "maxConcurrentHandler"
    /\ pc[c] \in {"parked", "selected"}
    /\ "timer" \in Legs
    /\ pc' = [pc EXCEPT ![c] = "selected"]
    /\ sel' = [sel EXCEPT ![c] = "timer"]
    /\ UNCHANGED <<utilVars, gateVars, ret, err, op, sess, calls, hist, httpVars>>

\* time.After(h.hesitateTime) fires while the request is parked.
Timeout(c) ==
    /\ facade = "maxConcurrentHandler"
    /\ pc[c] = "parked"
    /\ "timer" \in Legs
    /\ pc' = [pc EXCEPT ![c] = "selected"]
    /\ sel' = [sel EXCEPT ![c] = "timer"]
    /\ UNCHANGED <<utilVars, gateVars, ret, err, op, sess, calls, hist, httpVars>>

\* A request woken in acquireConn runs again: acquireConn returns and
\* ContextServeHTTP switches on ret.
Dispatch(c) ==
    /\ facade = "maxConcurrentHandler"
    /\ pc[c] = "selected"
    /\ Switch(c, acquireConn(sel[c]))
    /\ pc' = [pc EXCEPT ![c] = AfterSwitch(acquireConn(sel[c]))]
    /\ sel' = [sel EXCEPT ![c] = "none"]
    /\ UNCHANGED <<utilVars, gateVars, err, op, sess, hist, httpVars>>

\* The wrapped handler returns (or panics): the deferred releaseConn runs.
HandlerReturn(c) ==
    /\ facade \in HttpFacades
    /\ pc[c] = "serving"
    /\ IF facade = "maxConcurrentHandler" /\ Gated
       THEN RecvToken(c, "unwound")
       ELSE /\ pc' = [pc EXCEPT ![c] = "unwound"]
            /\ UNCHANGED <<concur, sel, hist>>
    /\ UNCHANGED <<utilVars, facade, maxConcurrent, hesitateArg, hesitateTime, ctxDone,
                   ret, err, op, sess, calls, httpVars>>

\* Faulty variant of WGDone: the counter is decremented twice for a request.
\* C20_ReqWGCoversHandlers rejects it.
WGDone_twice(c) ==
    /\ facade \in HttpFacades
    /\ pc[c] = "unwound"
    /\ reqWG' = reqWG - 2
    /\ pc' = [pc EXCEPT ![c] = "idle"]
    /\ ret' = [ret EXCEPT ![c] = -1]
    /\ calls' = [calls EXCEPT ![c] = NoCalls]
    /\ hist' = [hist EXCEPT ![c] = NoHist]
    /\ UNCHANGED <<utilVars, gateVars, sel, err, op, sess, stopD, sd, srv>>

\* ServeHTTP's deferred reqWG.Done(); ServeHTTP returns and the goroutine
\* is free for its next request.
WGDone(c) ==
    /\ facade \in HttpFacades
    /\ pc[c] = "unwound"
    /\ reqWG' = reqWG - 1
    /\ pc' = [pc EXCEPT ![c] = "idle"]
    /\ ret' = [ret EXCEPT ![c] = -1]
    /\ calls' = [calls EXCEPT ![c] = NoCalls]
    /\ hist' = [hist EXCEPT ![c] = NoHist]
    /\ UNCHANGED <<utilVars, gateVars, sel, err, op, sess, stopD, sd, srv>>

\* ServeHTTP of part_001 returns after its http.Error.
RefusedReturn(c) ==
    /\ facade = "part_001"
    /\ pc[c] = "refused"
    /\ pc' = [pc EXCEPT ![c] = "idle"]
    /\ calls' = [calls EXCEPT ![c] = NoCalls]
    /\ UNCHANGED <<utilVars, gateVars, sel, ret, err, op, sess, hist, httpVars>>

\* ------------------------------------------------------------ HttpService

\* HttpService.Start: go s.serve().
Start ==
    /\ facade \in HttpFacades
    /\ srv = "new"
    /\ srv' = "serving"
    /\ UNCHANGED <<utilVars, gateVars, callVars, reqWG, stopD, sd>>

\* HttpService.Stop: SetKeepAlivesEnabled(false), s.quitF(), s.l.Close().
Stop ==
    /\ facade \in HttpFacades
    /\ srv # "new"
    /\ sd = "running"
    /\ sd' = "stopped"
    /\ Cancel(QuitCtx)
    /\ UNCHANGED <<utilVars, facade, maxConcurrent, hesitateArg, hesitateTime, concur,
                   ret, err, op, sess, calls, hist, reqWG, stopD, srv>>

\* HttpService.WaitRequests: reqWG.Wait() returns when the counter is zero.
WaitRequests ==
    /\ facade \in HttpFacades
    /\ sd = "stopped"
    /\ reqWG = 0
    /\ sd' = "drained"
    /\ UNCHANGED <<utilVars, gateVars, callVars, reqWG, stopD, srv>>

\* HttpService.serve: srv.Serve returns, because the listener was closed by
\* Stop or failed on its own (or Serve panicked); ending is deferred.
ServeReturn ==
    /\ facade \in HttpFacades
    /\ srv = "serving"
    /\ srv' = "ending"
    /\ UNCHANGED <<utilVars, gateVars, callVars, reqWG, stopD, sd>>

\* HttpService.ending (httpservice.go): s.quitF().
EndingQuit ==
    /\ facade = "maxConcurrentHandler"
    /\ srv = "ending"
    /\ srv' = "quitted"
    /\ Cancel(QuitCtx)
    /\ UNCHANGED <<utilVars, facade, maxConcurrent, hesitateArg, hesitateTime, concur,
                   ret, err, op, sess, calls, hist, reqWG, stopD, sd>>

\* HttpService.ending: s.stopD.SetDone() (part_001 calls nothing before it).
EndingSetDone ==
    /\ \/ facade = "maxConcurrentHandler" /\ srv = "quitted"
       \/ facade = "part_001" /\ srv = "ending"
    /\ srv' = "ended"
    /\ stopD' = TRUE
    /\ UNCHANGED <<utilVars, gateVars, callVars, reqWG, sd>>

InitHttp ==
    /\ InitUtil
    /\ facade \in HttpFacades
    /\ maxConcurrent \in (IF facade = "part_001" THEN {0} ELSE 0..MaxConcurrent)
    /\ hesitateArg \in (IF facade = "part_001" THEN {0} ELSE HesitateArgs)
    /\ hesitateTime = (IF facade = "part_001" \/ maxConcurrent <= 0
                       THEN 0 ELSE NewHesitateTime(hesitateArg))
    /\ concur = 0
    /\ ctxDone = [k \in Ctxs |-> FALSE]
    /\ pc = [c \in Callers |-> "idle"]
    /\ sel = [c \in Callers |-> "none"]
    /\ ret = [c \in Callers |-> -1]
    /\ err = [c \in Callers |-> "nil"]
    /\ op = [c \in Callers |-> "none"]
    /\ sess = [c \in Callers |-> "none"]
    /\ calls = [c \in Callers |-> NoCalls]
    /\ hist = [c \in Callers |-> NoHist]
    /\ reqWG = 0
    /\ stopD = FALSE
    /\ sd = "running"
    /\ srv = "new"

NextHttp ==
    \/ \E c \in Callers :
        \/ ServeHTTP(c)
        \/ ServeHTTPCheck(c)
        \/ ServeHTTPAdd(c)
        \/ Timeout(c)
        \/ Dispatch(c)
        \/ HandlerReturn(c)
        \/ WGDone(c)
        \/ RefusedReturn(c)
    \/ Start
    \/ Stop
    \/ WaitRequests
    \/ ServeReturn
    \/ EndingQuit
    \/ EndingSetDone

Spec == InitHttp /\ [][NextHttp]_vars

\* ------------------------------------------ HttpClient, SQLDB, RedisPool

\* Where a call is once acquireConn has returned e.
AfterAcquire(o, e) ==
    IF e # "nil" THEN "done" ELSE IF o = "call" THEN "using" ELSE "borrow"

\* Faulty variant of poolAcquireConn: the ctx leg returns nil as well.
\* C4_CancelRefusesWaiters rejects it.
poolAcquireConn_nil(l) == "nil"

\* acquireConn's error for the leg that fired: ctx.Err() or nil.
poolAcquireConn(l) == IF l = "ctx" THEN "ctxErr" ELSE "nil"

\* A call after acquireConn returned e: it returns e, or goes on to the
\* underlying request / borrow.
Proceed(c, e) ==
    /\ err' = [err EXCEPT ![c] = e]
    /\ calls' = [calls EXCEPT ![c].oh = IF e = "nil" THEN @ + 1 ELSE @]

\* A call of HttpClient / SQLDB / RedisPool up to its underlying request:
\* acquireConn (the three are the same code) returns nil when concur is
\* nil, else its select takes a ready leg or parks.
PoolCall(c, o) ==
    /\ pc[c] = "idle"
    /\ sess[c] = "none"
    /\ op' = [op EXCEPT ![c] = o]
    /\ IF ~Gated
       THEN /\ Proceed(c, "nil")
            /\ pc' = [pc EXCEPT ![c] = AfterAcquire(o, "nil")]
            /\ UNCHANGED <<concur, hist>>
       ELSE IF ReadyLegs(c) = {}
       THEN /\ pc' = [pc EXCEPT ![c] = "parked"]
            /\ UNCHANGED <<concur, err, calls, hist>>
       ELSE \E l \in ReadyLegs(c) :
            /\ Proceed(c, poolAcquireConn(l))
            /\ IF l = "send"
               THEN SendToken(c, AfterAcquire(o, poolAcquireConn(l)))
               ELSE /\ pc' = [pc EXCEPT ![c] = AfterAcquire(o, poolAcquireConn(l))]
                    /\ UNCHANGED <<concur, hist>>
    /\ UNCHANGED <<utilVars, facade, maxConcurrent, hesitateArg, hesitateTime, ctxDone,
                   sel, ret, sess, httpVars>>

\* A call-scoped operation starts: HttpClient.Do/Get/Head/Post/PostForm,
\* SQLDB.Exec/Ping/Query/QueryRow/Prepare, SQLStmt.Exec/Query/QueryRow.
Call(c) ==
    /\ facade \in {"HttpClient", "SQLDB"}
    /\ PoolCall(c, "call")

\* SQLDB.Begin / RedisPool.Get starts.
Open(c) ==
    /\ facade \in {"SQLDB", "RedisPool"}
    /\ PoolCall(c, "open")

\* A caller woken in acquireConn runs again: acquireConn returns.
PoolDispatch(c) ==
    /\ facade \in PoolFacades
    /\ pc[c] = "selected"
    /\ Proceed(c, poolAcquireConn(sel[c]))
    /\ pc' = [pc EXCEPT ![c] = AfterAcquire(op[c], poolAcquireConn(sel[c]))]
    /\ sel' = [sel EXCEPT ![c] = "none"]
    /\ UNCHANGED <<utilVars, gateVars, ret, op, sess, hist, httpVars>>

\* Faulty variant of releaseConn: it returns without receiving.
\* C11_CallReleasesOnce rejects it.
releaseConn_skip(c) ==
    /\ pc' = [pc EXCEPT ![c] = "done"]
    /\ UNCHANGED <<concur, sel, hist>>

\* releaseConn of HttpClient / SQLDB / RedisPool: nothing when concur is nil.
releaseConn(c) ==
    IF Gated
    THEN RecvToken(c, "done")
    ELSE /\ pc' = [pc EXCEPT ![c] = "done"]
         /\ UNCHANGED <<concur, sel, hist>>

\* The underlying request returns (or panics): the deferred releaseConn.
CallReturn(c) ==
    /\ facade \in PoolFacades
    /\ pc[c] = "using"
    /\ releaseConn(c)
    /\ UNCHANGED <<utilVars, facade, maxConcurrent, hesitateArg, hesitateTime, ctxDone,
                   ret, err, op, sess, calls, httpVars>>

\* SQLDB.Begin / RedisPool.Get: the borrow succeeded, success = true, so the
\* deferred function releases nothing and the session keeps the slot.
BorrowOk(c) ==
    /\ facade \in PoolFacades
    /\ pc[c] = "borrow"
    /\ sess' = [sess EXCEPT ![c] = "open"]
    /\ pc' = [pc EXCEPT ![c] = "done"]
    /\ UNCHANGED <<utilVars, gateVars, sel, ret, err, op, calls, hist, httpVars>>

\* Faulty variant of BorrowFail: the error is returned without releaseConn.
\* C8_BorrowFailReleases rejects it.
BorrowFail_leak(c) ==
    /\ facade \in PoolFacades
    /\ pc[c] = "borrow"
    /\ err' = [err EXCEPT ![c] = "borrowErr"]
    /\ pc' = [pc EXCEPT ![c] = "done"]
    /\ UNCHANGED <<utilVars, gateVars, sel, ret, op, sess, calls, hist, httpVars>>

\* SQLDB.Begin / RedisPool.Get: db.Begin() failed / c.Err() != nil: return
\* (nil, err); success is false, so the deferred function calls releaseConn.
BorrowFail(c) ==
    /\ facade \in PoolFacades
    /\ pc[c] = "borrow"
    /\ err' = [err EXCEPT ![c] = "borrowErr"]
    /\ releaseConn(c)
    /\ UNCHANGED <<utilVars, facade, maxConcurrent, hesitateArg, hesitateTime, ctxDone,
                   ret, op, sess, calls, httpVars>>

\* SQLTx.Commit / SQLTx.Rollback / proxyConn.Close on the caller's session,
\* whether or not it was ended before: each calls releaseConn.
End(c) ==
    /\ facade \in PoolFacades
    /\ pc[c] = "idle"
    /\ sess[c] \in {"open", "ended"}
    /\ sess' = [sess EXCEPT ![c] = "ended"]
    /\ op' = [op EXCEPT ![c] = "end"]
    /\ releaseConn(c)
    /\ UNCHANGED <<utilVars, facade, maxConcurrent, hesitateArg, hesitateTime, ctxDone,
                   ret, err, calls, httpVars>>

\* The caller's call has returned; it goes on to its next one.
NextCall(c) ==
    /\ facade \in PoolFacades
    /\ pc[c] = "done"
    /\ pc' = [pc EXCEPT ![c] = "idle"]
    /\ err' = [err EXCEPT ![c] = "nil"]
    /\ op' = [op EXCEPT ![c] = "none"]
    /\ calls' = [calls EXCEPT ![c] = NoCalls]
    /\ hist' = [hist EXCEPT ![c] = NoHist]
    /\ UNCHANGED <<utilVars, gateVars, sel, ret, sess, httpVars>>

\* The caller drops its ended SQLTx / proxyConn.
DropSession(c) ==
    /\ facade \in PoolFacades
    /\ pc[c] = "idle"
    /\ sess[c] = "ended"
    /\ sess' = [sess EXCEPT ![c] = "none"]
    /\ UNCHANGED <<utilVars, gateVars, pc, sel, ret, err, op, calls, hist, httpVars>>

\* A caller's context is cancelled (its CancelFunc, or its deadline).
CancelCtx(k) ==
    /\ facade \in PoolFacades
    /\ k # QuitCtx
    /\ ~ctxDone[k]
    /\ Cancel(k)
    /\ UNCHANGED <<utilVars, facade, maxConcurrent, hesitateArg, hesitateTime, concur,
                   ret, err, op, sess, calls, hist, httpVars>>

InitPool ==
    /\ InitUtil
    /\ facade \in PoolFacades
    /\ maxConcurrent \in 0..MaxConcurrent
    /\ hesitateArg = 0
    /\ hesitateTime = 0
    /\ concur = 0
    /\ ctxDone = [k \in Ctxs |-> FALSE]
    /\ pc = [c \in Callers |-> "idle"]
    /\ sel = [c \in Callers |-> "none"]
    /\ ret = [c \in Callers |-> -1]
    /\ err = [c \in Callers |-> "nil"]
    /\ op = [c \in Callers |-> "none"]
    /\ sess = [c \in Callers |-> "none"]
    /\ calls = [c \in Callers |-> NoCalls]
    /\ hist = [c \in Callers |-> NoHist]
    /\ reqWG = 0
    /\ stopD = FALSE
    /\ sd = "running"
    /\ srv = "new"

NextPool ==
    \/ \E c \in Callers :
        \/ Call(c)
        \/ Open(c)
        \/ PoolDispatch(c)
        \/ CallReturn(c)
        \/ BorrowOk(c)
        \/ BorrowFail(c)
        \/ End(c)
        \/ NextCall(c)
        \/ DropSession(c)
    \/ \E k \in Ctxs : CancelCtx(k)

SpecPool == InitPool /\ [][NextPool]_vars

\* Both families of wrappers in one specification.
SpecAll == (InitHttp \/ InitPool) /\ [][NextHttp \/ NextPool]_vars

\* HttpClient alone: its calls are call-scoped, it has no sessions.
InitClient == InitPool /\ facade = "HttpClient"

NextClient ==
    \/ \E c \in Callers :
        \/ Call(c)
        \/ PoolDispatch(c)
        \/ CallReturn(c)
        \/ NextCall(c)
    \/ \E k \in Ctxs : CancelCtx(k)

\* The gate with a timeout leg (maxConcurrentHandler) and a gate without
\* one (HttpClient), with the scheduler's fairness: a goroutine that was
\* woken in acquireConn runs again, so acquireConn returns.  Nothing else
\* is assumed to happen: no slot need ever be released, no timer need fire,
\* no further request need arrive.
FairSpecGates ==
    /\ (InitHttp \/ InitClient)
    /\ [][NextHttp \/ NextClient]_vars
    /\ \A c \in Callers : WF_vars(Dispatch(c)) /\ WF_vars(PoolDispatch(c))

\* ------------------------------------------------------------- properties

\* The callers that have been admitted by the gate and have not released:
\* in the wrapped handler or request, borrowing, holding an open session,
\* or woken in acquireConn by the send leg.
Holders ==
    {c \in Callers :
        \/ pc[c] \in {"serving", "using", "borrow"}
        \/ pc[c] = "selected" /\ sel[c] = "send"
        \/ sess[c] = "open"}

\* C1: for a gate of capacity N >= 1, in every reachable state the number of
\* callers admitted and not yet released is at most N and equals the number
\* of tokens in the gate's channel.
C1_GateBound ==
    Gated => /\ Cardinality(Holders) <= maxConcurrent
             /\ Cardinality(Holders) = concur
             /\ concur \in 0..maxConcurrent

\* A request enters ServeHTTP in this step.
Enters(c) == pc[c] = "idle" /\ pc'[c] # "idle"

\* C2: once Stop has returned, a request that enters ServeHTTP gets the
\* 'unavailable' outcome: the wrapped handler is not invoked for it and it
\* does not get the 'busy' outcome, whatever the capacity and the free slots.
C2_StoppedMeansUnavailable ==
    [][\A c \in Callers :
        (facade \in HttpFacades /\ sd \in {"stopped", "drained"} /\ Enters(c))
        => /\ calls'[c].oh = 0
           /\ calls'[c].onLimit = 0
           /\ calls'[c].onCtxDone + calls'[c].err503 = 1]_vars

\* C3: after Stop then WaitRequests, once WaitRequests has returned no wrapped
\* handler is executing, and none starts executing afterwards.
C3_DrainedMeansQuiet ==
    sd = "drained" => \A c \in Callers : pc[c] # "serving"

\* The outcome of an acquire that the ctx leg decided: Refused-Cancelled,
\* without a token, without the unit of work.
RefusedCancelled(c) ==
    /\ hist'[c] = hist[c]
    /\ calls'[c].oh = 0
    /\ IF facade \in HttpFacades
       THEN /\ ret'[c] = acquire_CtxDone
            /\ calls'[c].onCtxDone = 1
            /\ calls'[c].onLimit = 0
            /\ pc'[c] = "unwound"
       ELSE /\ err'[c] = "ctxErr"
            /\ pc'[c] = "done"

\* C4: when a context is cancelled while callers are blocked in acquireConn
\* with it, every one of them resolves Refused-Cancelled (acquire_CtxDone /
\* ctx.Err()), not admitted and not Refused-Timeout, for any capacity: the
\* cancellation wakes each of them by the ctx leg, the leg stays decided,
\* and acquireConn returns the refusal.
C4_CancelRefusesWaiters ==
    [][\A c \in Callers :
        /\ (pc[c] = "parked" /\ ~ctxDone[CtxOf(c)] /\ ctxDone'[CtxOf(c)])
            => (pc'[c] = "selected" /\ sel'[c] = "ctx")
        /\ (pc[c] = "selected" /\ sel[c] = "ctx" /\ pc'[c] = "selected")
            => sel'[c] = "ctx"
        /\ (pc[c] = "selected" /\ sel[c] = "ctx" /\ pc'[c] # "selected")
            => RefusedCancelled(c)]_vars

\* Two callers blocked on the same context were woken by its cancellation.
C4_Witness ==
    \E c, d \in Callers :
        /\ c # d
        /\ CtxOf(c) = CtxOf(d)
        /\ pc[c] = "selected" /\ sel[c] = "ctx"
        /\ pc[d] = "selected" /\ sel[d] = "ctx"

\* A caller is inside acquireConn: blocked in its select, or woken and not
\* yet running.
InAcquire(c) == pc[c] \in {"parked", "selected"}

C6_UnboundedNeverBlocks ==
    (maxConcurrent = 0 /\ facade # "part_001") =>
        /\ concur = 0
        /\ \A c \in Callers :
            /\ pc[c] \in {"idle", "serving", "unwound", "using", "borrow", "done"}
            /\ sel[c] = "none"
            /\ ret[c] = -1
            /\ err[c] # "ctxErr"
            /\ calls[c].onCtxDone = 0 /\ calls[c].onLimit = 0
            /\ hist[c] = NoHist
            /\ pc[c] \in {"serving", "unwound", "using", "borrow"}
                => calls[c].oh = 1

\* Without a limit, two callers whose context is already cancelled are in
\* the unit of work at the same time.
C6_Witness ==
    /\ maxConcurrent = 0
    /\ facade # "part_001"
    /\ \E c, d \in Callers :
        /\ c # d
        /\ ctxDone[CtxOf(c)] /\ ctxDone[CtxOf(d)]
        /\ pc[c] \in {"serving", "using", "borrow"}
        /\ pc[d] \in {"serving", "using", "borrow"}
        /\ calls[c].oh = 1 /\ calls[d].oh = 1

\* The caller ends, in this step, a session that was ended before.
EndsAgain(c) == pc[c] = "idle" /\ sess[c] = "ended" /\ pc'[c] # "idle"

\* C7: ending the same session twice has the same effect on the gate as
\* ending it once: the second call does not take a token, does not block,
\* and releases no other session's slot.
C7_SecondEndIsNoOp ==
    [][\A c \in Callers :
        EndsAgain(c) =>
            /\ concur' = concur
            /\ pc'[c] = "done"
            /\ hist'[c].rel = hist[c].rel
            /\ \A d \in Callers \ {c} : pc'[d] = pc[d]]_vars

\* C8: when the borrow fails after admission (RedisPool.Get, SQLDB.Begin),
\* the call returns that error and no session, and the slot it acquired has
\* been released exactly once when it returns.
C8_BorrowFailReleases ==
    \A c \in Callers :
        /\ pc[c] = "borrow"
            => /\ sess[c] = "none"
               /\ hist[c] = (IF Gated THEN [acq |-> 1, rel |-> 0] ELSE NoHist)
        /\ (pc[c] = "done" /\ op[c] = "open" /\ err[c] \notin {"nil", "ctxErr"})
            => /\ err[c] = "borrowErr"
               /\ sess[c] = "none"
               /\ calls[c].oh = 1
               /\ hist[c] = (IF Gated THEN [acq |-> 1, rel |-> 1] ELSE NoHist)

\* A failed borrow has returned on a gated pool, its slot is free again and
\* nobody else holds one.
C8_Witness ==
    \E c \in Callers :
        /\ Gated
        /\ pc[c] = "done" /\ err[c] = "borrowErr"
        /\ hist[c].rel = 1
        /\ concur = 0
        /\ Holders = {}

\* C9: a request of maxConcurrentHandler ends in exactly one of three
\* outcomes: admitted (the wrapped handler invoked once), Refused-Cancelled
\* (OnContextDone invoked once) or Refused-Timeout (OnConcurrentLimit invoked
\* once); the refusals use different callbacks and do not invoke the handler.
C9_ExactlyOneOutcome ==
    facade = "maxConcurrentHandler" =>
        \A c \in Callers :
            LET k == calls[c]
                n == k.oh + k.onCtxDone + k.onLimit
            IN  /\ k.err503 = 0
                /\ n = (IF pc[c] \in {"serving", "relBlocked", "unwound"}
                        THEN 1 ELSE 0)
                /\ pc[c] = "serving" => k.oh = 1
                /\ Gated =>
                    /\ ret[c] = acquire_OK => k.oh = 1
                    /\ ret[c] = acquire_CtxDone => k.onCtxDone = 1
                    /\ ret[c] = acquire_Timeout => k.onLimit = 1
                    /\ pc[c] = "unwound" =>
                        ret[c] \in {acquire_OK, acquire_CtxDone, acquire_Timeout}

\* Three requests that ended, at the same time, in the three outcomes.
C9_Witness ==
    /\ facade = "maxConcurrentHandler"
    /\ \E c, d, e \in Callers :
        /\ pc[c] = "unwound" /\ ret[c] = acquire_OK /\ calls[c].oh = 1
        /\ pc[d] = "unwound" /\ ret[d] = acquire_CtxDone
        /\ calls[d].onCtxDone = 1
        /\ pc[e] = "unwound" /\ ret[e] = acquire_Timeout
        /\ calls[e].onLimit = 1

Quiet == \A c \in Callers : pc[c] \in {"idle", "done"}

\* C11: an admitted call-scoped operation (ContextServeHTTP; HttpClient.Do
\* ..., SQLDB.Exec ..., SQLStmt.Exec ...) holds one slot while its unit of
\* work runs and has released it exactly once when it returns, however the
\* unit of work ended; ServeHTTP has decremented reqWG when it returns.  So
\* when no call is in progress the in-flight count is 0 and the channel
\* holds no token beyond those of open sessions: none for the handler and
\* for HttpClient.
C11_CallReleasesOnce ==
    /\ \A c \in Callers :
        /\ pc[c] \in {"serving", "using"}
            => hist[c] = (IF Gated THEN [acq |-> 1, rel |-> 0] ELSE NoHist)
        /\ (\/ pc[c] = "unwound" /\ calls[c].oh = 1
            \/ pc[c] = "done" /\ op[c] = "call" /\ err[c] = "nil")
            => /\ hist[c] = (IF Gated THEN [acq |-> 1, rel |-> 1] ELSE NoHist)
               /\ calls[c].oh = 1
    /\ Quiet =>
        /\ reqWG = 0
        /\ concur <= Cardinality({c \in Callers : sess[c] = "open"})
        /\ concur >= 0

\* On a gate of capacity 1 a call has returned with its slot released, and
\* another caller has been admitted to the slot.
C11_Witness ==
    /\ maxConcurrent = 1
    /\ concur = 1
    /\ \E c, d \in Callers :
        /\ pc[c] = "done" /\ op[c] = "call" /\ err[c] = "nil"
        /\ hist[c] = [acq |-> 1, rel |-> 1]
        /\ pc[d] = "using"
        /\ \A e \in Callers : sess[e] = "none"

\* C12: DoneChan is a one-shot signal: Done() is false until the first
\* SetDone and true ever after (once a SetDone has returned, and once a
\* Done() has returned true); any number of SetDone calls, also concurrent
\* ones, return normally, and the channel is closed exactly once.
C12_DoneChanOneShot ==
    /\ dFired = (IF dClosed THEN 1 ELSE 0)
    /\ \A c \in Callers :
        /\ dres[c] \in {"none", "ok", "recovered"}
        /\ dpc[c] = "returned" => (dClosed /\ dres[c] # "none")
        /\ dseen[c] = "true" => dClosed
        /\ dpc[c] = "closing" => dres[c] = "none"

\* Two goroutines raced in SetDone: both returned, one closed the channel,
\* the other recovered from the second close; a third saw Done() false
\* before.
C12_Witness ==
    \E c, d, e \in Callers :
        /\ dpc[c] = "returned" /\ dres[c] = "ok"
        /\ dpc[d] = "returned" /\ dres[d] = "recovered"
        /\ dseen[e] = "false"
        /\ dFired = 1

\* C13: Event coalesces: Set never blocks (it is one step), at most one
\* notification is pending, one is pending exactly when a Set happened
\* since the last successful receive, so any number of Sets allows one
\* receive to succeed and the next receive blocks until another Set.
C13_EventCoalesces ==
    /\ evLen \in {0, 1}
    /\ (evLen = 1) <=> (evSets >= 1)
    /\ evRecvs <= 1
    /\ evLen = 1 => evRecvs = 0
    /\ evWaiters # {} => evLen = 0

\* After two Sets, the second of which found one pending, one receive
\* succeeded and the next receiver is blocked on the empty channel.
C13_Witness ==
    \E c, d, e \in Callers :
        /\ evpc[c] = "got"
        /\ evpc[d] = "waiting"
        /\ evpc[e] = "dropped"
        /\ evLen = 0 /\ evSets = 0 /\ evRecvs = 1

\* The channel that was created together with id and not removed since, or
\* the nil channel.
LiveChan(id) ==
    IF \E k \in 1..Len(cmCreated) : cmCreated[k].id = id /\ id \notin cmRemoved
    THEN cmCreated[CHOOSE k \in 1..Len(cmCreated) : cmCreated[k].id = id].c
    ELSE NilChan

\* C14: the ids NewF returns start at 1, increase by one, are pairwise
\* distinct and are not used again after Remove; each creation returns a
\* channel of its own; Get(id) returns the channel created together with id
\* from its creation until Remove(id), and nil for any other id.
C14_ChanmapIds ==
    /\ [](/\ \A k \in 1..Len(cmCreated) : cmCreated[k].id = k
          /\ \A k, l \in 1..Len(cmCreated) :
                k # l => cmCreated[k].c # cmCreated[l].c
          /\ nextID = Len(cmCreated) + 1
          /\ \A id \in IdArgs : chans[id] = LiveChan(id))
    /\ [][cmGet' # cmGet => cmGet'.c = LiveChan(cmGet'.id)]_vars

\* Three channels were created, the second one removed: Get returned nil
\* for its id after having returned its channel for another id.
C14_Witness ==
    /\ Len(cmCreated) = 3
    /\ cmRemoved = {2}
    /\ cmGet = [id |-> 2, c |-> NilChan]
    /\ chans[1] # NilChan /\ chans[3] # NilChan

\* C15: GenID of the memory gener returns no error; the j-th atomic increment
\* yields the id j, so the first id is 1 and the ids are gap-free in the
\* order of the increments; the k completed calls returned k distinct ids,
\* all among 1..k' for the k' increments made so far.
C15_MemoryGenerIds ==
    /\ \A c \in Callers : gerr[c] \in {"none", "nil"}
    /\ \A c \in Callers : gpc[c] = "returned" => gerr[c] = "nil"
    /\ Len(genOrder) = next
    /\ \A j \in 1..Len(genOrder) : genOrder[j] = j
    /\ Cardinality(genDone) = genCount
    /\ genDone \subseteq 1..next
    /\ genCount <= next
    /\ \A c, d \in Callers :
        (c # d /\ gpc[c] # "idle" /\ gpc[d] # "idle") => gid[c] # gid[d]

\* Two calls overlapped: the later increment returned first (id 2) while the
\* call holding id 1 has not returned yet, and a third call has completed.
C15_Witness ==
    \E c, d \in Callers :
        /\ gpc[c] = "added" /\ gid[c] = 1
        /\ gpc[d] = "returned" /\ gid[d] = 3
        /\ genDone = {2, 3}
        /\ genCount = 2

\* A call of HttpClient / SQLDB / RedisPool is made in this step.
Calls(c) ==
    /\ facade \in PoolFacades
    /\ pc[c] = "idle"
    /\ pc'[c] # "idle"
    /\ op'[c] \in {"call", "open"}

\* C16: a call of HttpClient, SQLDB or RedisPool made with a context that is
\* already cancelled returns the context's error and does not perform the
\* underlying request / query / borrow, whatever the capacity and the number
\* of free slots.
C16_CancelledCallFailsClosed ==
    [][\A c \in Callers :
        (Calls(c) /\ ctxDone[CtxOf(c)])
        => /\ err'[c] = "ctxErr"
           /\ calls'[c].oh = 0
           /\ pc'[c] = "done"]_vars

\* The caller has been admitted: its unit of work runs or is about to (the
\* token was sent for it), or it holds an open session.
Admitted(c) ==
    \/ pc[c] \in {"serving", "using", "borrow"}
    \/ pc[c] = "selected" /\ sel[c] = "send"
    \/ sess[c] = "open"

\* C17: a step that cancels a context (a caller's cancel, Stop, ending)
\* leaves every admitted caller where it is: no slot is released, no session
\* ends, the in-flight count stays; and a unit of work running under a
\* cancelled context still holds its slot and is still counted in flight.
C17_CancelLeavesAdmitted ==
    /\ [][ctxDone' # ctxDone =>
            /\ concur' = concur
            /\ reqWG' = reqWG
            /\ sess' = sess
            /\ hist' = hist
            /\ \A c \in Callers :
                Admitted(c) => /\ pc'[c] = pc[c]
                               /\ sel'[c] = sel[c]
                               /\ calls'[c] = calls[c]]_vars
    /\ [](\A c \in Callers :
            (pc[c] \in {"serving", "using"} /\ ctxDone[CtxOf(c)])
            => /\ Gated => hist[c] = [acq |-> 1, rel |-> 0]
               /\ facade \in HttpFacades => reqWG >= 1)

\* A call runs under a cancelled context and holds the only slot, while the
\* caller that shared the context was woken from the queue by the cancel.
C17_Witness ==
    /\ maxConcurrent = 1
    /\ concur = 1
    /\ \E c, d \in Callers :
        /\ c # d /\ CtxOf(c) = CtxOf(d)
        /\ ctxDone[CtxOf(c)]
        /\ pc[c] = "using" /\ hist[c] = [acq |-> 1, rel |-> 0]
        /\ pc[d] = "selected" /\ sel[d] = "ctx"

\* C18: after Parse(args) with args[0] the name of a defined cmd, Winning()
\* is that cmd, the one Lookup(args[0]) returns; Parsed() is false before
\* the first Parse and true after any Parse; Lookup returns nil for a name
\* without a cmd, and Winning returns nil while no Parse has selected a cmd.
C18_WinningIsSelected ==
    /\ cmLast.defined => (Winning = Lookup(cmLast.arg) /\ Winning # NilCmd)
    /\ parsed <=> (cmParses > 0)
    /\ \A t \in Tokens : Lookup(t) # NilCmd => Lookup(t).Name = t
    /\ ~cmSelected => Winning = NilCmd

\* The caller's acquire was refused: acquire_CtxDone or acquire_Timeout from
\* the handler's acquireConn, ctx.Err() from the others'.
Refused(c) ==
    IF facade \in HttpFacades
    THEN ret[c] \in {acquire_CtxDone, acquire_Timeout}
    ELSE err[c] = "ctxErr"

\* C19: a refused acquire (cancelled or timed out) leaves the gate as it is
\* and invokes nothing downstream: the refusing step and the caller's return
\* do not change the number of held slots, the caller has sent no token and
\* receives none, and the handler / request / query / borrow is not invoked.
C19_RefusedLeavesGate ==
    /\ [](\A c \in Callers :
            Refused(c) => /\ hist[c] = NoHist
                          /\ calls[c].oh = 0
                          /\ pc[c] \in {"unwound", "done"}
                          /\ sess[c] # "open")
    /\ [][\A c \in Callers :
            /\ (~Refused(c) /\ Refused(c)') => (concur' = concur /\ hist' = hist)
            /\ (Refused(c) /\ pc'[c] # pc[c])
                => (concur' = concur /\ hist' = hist /\ pc'[c] = "idle")]_vars

\* With the only slot held by a running handler, one request was refused by
\* the timeout and another by the cancelled context.
C19_Witness ==
    /\ maxConcurrent = 1
    /\ concur = 1
    /\ \E c, d, e \in Callers :
        /\ ret[c] = acquire_Timeout /\ pc[c] = "unwound"
        /\ ret[d] = acquire_CtxDone /\ pc[d] = "unwound"
        /\ pc[e] = "serving" /\ hist[e] = [acq |-> 1, rel |-> 0]

\* C20: in every reachable state of HttpService reqWG is not negative and is
\* at least the number of wrapped handlers executing, so it is not zero
\* while a handler runs: it counts the requests between their reqWG.Add(1)
\* and their reqWG.Done().
C20_ReqWGCoversHandlers ==
    facade \in HttpFacades =>
        /\ reqWG >= 0
        /\ reqWG >= Cardinality({c \in Callers : pc[c] = "serving"})
        /\ (\E c \in Callers : pc[c] = "serving") => reqWG > 0
        /\ reqWG = Cardinality({c \in Callers :
                        pc[c] \notin {"idle", "checked", "refused"}})

\* After Stop, a handler still runs while another request has left its
\* handler and not yet decremented: the counter is 2.
C20_Witness ==
    /\ facade \in HttpFacades
    /\ sd = "stopped"
    /\ reqWG = 2
    /\ \E c, d \in Callers :
        /\ pc[c] = "serving"
        /\ pc[d] = "unwound" /\ calls[d].oh = 1

\* The request has been admitted and its session is not closed yet: it got
\* its slot (or needs none) and ServeHTTP has not returned.
SessionOpen(c) ==
    \/ pc[c] = "serving"
    \/ pc[c] = "selected" /\ sel[c] = "send"
    \/ pc[c] = "unwound" /\ calls[c].oh = 1

\* C21: the in-flight counter counts admitted sessions only: in every
\* reachable state reqWG is the number of admitted requests whose session
\* has not ended; a request that waits for a slot, or that was refused
\* (unavailable or busy), is not counted and does not change it.
C21_CounterCountsAdmitted ==
    facade \in HttpFacades =>
        reqWG = Cardinality({c \in Callers : SessionOpen(c)})

\* The requests whose wrapped handler is executing.
Serving == {c \in Callers : pc[c] = "serving"}

\* C22: the gate of maxConcurrentHandler bounds the number of handlers that
\* execute at once and nothing else: with capacity N up to N handlers run
\* side by side (the witness reaches N = 2 with a third request refused),
\* never more, each holding one slot; a request that waits or is refused
\* with acquire_Timeout has obtained no slot and has not run the handler.
C22_GateBoundsCountOnly ==
    (facade = "maxConcurrentHandler" /\ Gated) =>
        /\ Cardinality(Serving) <= maxConcurrent
        /\ Cardinality(Serving) <= concur
        /\ \A c \in Serving : hist[c] = [acq |-> 1, rel |-> 0]
        /\ \A c \in Callers :
            (\/ pc[c] = "parked"
             \/ pc[c] = "selected" /\ sel[c] = "timer"
             \/ ret[c] = acquire_Timeout)
            => (hist[c] = NoHist /\ calls[c].oh = 0)

\* Capacity 2: two handlers execute at the same time while a third request
\* that waited for hesitateTime has been refused with acquire_Timeout.
C22_Witness ==
    /\ facade = "maxConcurrentHandler"
    /\ maxConcurrent = 2
    /\ Cardinality(Serving) = 2
    /\ \E c \in Callers : ret[c] = acquire_Timeout /\ calls[c].onLimit = 1

\* C23: NewSemaphore(n) panics with ErrInvalidArgs for every n <= 0 and makes
\* no Semaphore; Acquire(n) / Release(n) with n > cap panic before adding or
\* removing a token; with 0 <= n <= cap Acquire(n) returns only after it has
\* added n tokens and Release(n) only after it has removed n; the number of
\* tokens stays within 0..cap.
C23_SemaphoreArgs ==
    /\ [](/\ semLen \in 0..semCap
          /\ semNew = "panicked" => (semArg <= 0 /\ semCap = 0 /\ semLen = 0)
          /\ semNew = "made" => (semArg > 0 /\ semCap = semArg)
          /\ \A c \in SemCallers :
                /\ slast[c].res = "ErrInvalidArgs" => slast[c].n > semCap
                /\ slast[c].res = "returned" => slast[c].n <= semCap
                /\ spc[c] # "idle" =>
                    /\ sn[c] <= semCap
                    /\ si[c] <= (IF sn[c] < 0 THEN 0 ELSE sn[c]))
    /\ [][/\ semArg' <= 0 /\ semNew' # semNew => semNew' = "panicked"
          /\ \A c \in SemCallers :
                /\ (slast'[c] # slast[c] /\ slast'[c].res = "ErrInvalidArgs")
                    => (semLen' = semLen /\ spc[c] = "idle")
                /\ (slast'[c].res = "returned" /\ slast[c].res # "returned"
                    /\ sn[c] >= 0)
                    => (si[c] = sn[c] /\ slast'[c].n = sn[c])
                /\ (si'[c] = si[c] + 1 /\ spc[c] = "acquiring")
                    => semLen' = semLen + 1
                /\ (si'[c] = si[c] + 1 /\ spc[c] = "releasing")
                    => semLen' = semLen - 1]_vars

\* On a Semaphore of capacity 2 one goroutine's Acquire(3) has panicked and
\* the other's Acquire(2) has returned with both tokens in the channel.
C23_Witness ==
    /\ semNew = "made" /\ semCap = 2 /\ semLen = 2
    /\ \E c, d \in SemCallers :
        /\ slast[c] = [op |-> "Acquire", n |-> 3, res |-> "ErrInvalidArgs"]
        /\ slast[d] = [op |-> "Acquire", n |-> 2, res |-> "returned"]

\* C24: on a Semaphore of capacity c without other holders, goroutines that
\* each call Acquire(n) with n <= c and then Release(n) all complete under
\* fair scheduling.
C24_PairsComplete == <>(\A c \in SemCallers : PairDone(c))

\* C25: whenever Stopped() reports true (stopD has fired, serve has ended for
\* whatever reason), the quit context of the HttpService is cancelled.
C25_StoppedMeansQuit ==
    (facade \in HttpFacades /\ stopD) => ctxDone[QuitCtx]

\* C26: once all concurrent SetOutput calls (the application's and the
\* reload goroutine's) have completed, the file the logger writes to is the
\* one recorded in logF, that file is open, and every other file a SetOutput
\* has opened has been closed exactly once.
C26_LoggerWritesCurrent ==
    ((\A g \in LogCallers : lpc[g] = "idle") /\ logOpened > 0) =>
        /\ logOut = logF
        /\ logCloses[logOut] = 0
        /\ \A f \in 1..logOpened : f # logF => logCloses[f] = 1

RECURSIVE SumLast(_, _)
\* The sum of the last m elements of a sequence, as integers.
SumLast(seq, m) ==
    IF m = 0 THEN 0 ELSE seq[Len(seq)] + SumLast(SubSeq(seq, 1, Len(seq) - 1), m - 1)

\* The number of samples in the window after k updates.
Window == IF Len(samples) < CycleLen THEN Len(samples) ELSE CycleLen

\* C27: for a Price of cycleSize N >= 1, after k >= 1 Update calls cycleTotal
\* is the sum of the last min(k, N) samples and Average() is that sum divided
\* by min(k, N), truncated toward zero; before any Update Average() is 0.
C27_PriceAverage ==
    /\ Len(samples) = 0 => Average = 0
    /\ Len(samples) >= 1 =>
        /\ cycleTotal = SumLast(samples, Window)
        /\ Average = TruncDiv(SumLast(samples, Window), Window)

====
